---- MODULE Spec2Model ----
(***************************************************************************)
(* Per-connection session bridge of speech-backend (src/server.ts): the    *)
(* client WebSocket on one side, the Google streamingRecognize duplex      *)
(* stream on the other.  Every handler registered in wss.on('connection')  *)
(* is one action; the stream object (a Node duplex stream) and the         *)
(* WebSocket are the environment, modelled by the part of their interface  *)
(* the handlers use: destroyed / writable, write / end / destroy, and the  *)
(* events error, data, close.                                              *)
(***************************************************************************)
EXTENDS Integers, Sequences, FiniteSets, TLC

\* ---------------------------------------------------------------- bounds
\* How much the environment does to one session in one run.  Spec takes
\* every kind of input (malformed frames, failing stream creation, every shape
\* of recognizer event) through a few frames and streams; SpecStale follows
\* well-formed frames through more streams of one session; SpecRelay follows
\* a longer run of recognizer events on one stream; SpecAudio sends frames
\* of different contents to one stream; SpecPair runs two sessions side
\* by side.
MaxStreams   == 2     \* Spec: upstream streams a session may open
MaxFrames    == 2     \* Spec: binary frames a client sends
StaleStreams == 3     \* SpecStale: upstream streams a session may open
StaleFrames  == 3     \* SpecStale: binary frames a client sends
RelayEvents  == 3     \* SpecRelay: data events the recognizer emits
AudioFrames  == 2     \* SpecAudio: binary frames a client sends
PairFrames   == 1     \* SpecPair: binary frames the first of two clients sends

SessionIds == {"s1", "s2"}
StreamIds  == 1..(IF MaxStreams > StaleStreams THEN MaxStreams ELSE StaleStreams)
NoStream   == 0       \* recognizeStream = null

\* ------------------------------------------------------ program constants
BYTES_PER_SAMPLE == 4 \* audioBuffer.length % 4
SAMPLE_SCALE == 32767 \* float32Array[i] * 32767
INT16_MIN == -32768   \* Math.max(-32768, ...)
INT16_MAX == 32767    \* Math.min(32767, ...)

VARIABLES
  readyState,       \* ws.readyState of each session's client connection
  recognizeStream,  \* the closure variable: NoStream or the id of a stream
  streams,          \* the stream objects each session has created
  opened,           \* how many streams the session has created
  timers,           \* pending setTimeout callbacks (FIFO), each holding its frame
  received,         \* how many binary frames the client has sent
  written,          \* log of recognizeStream.write calls
  sent,             \* log of ws.send calls
  emitted,          \* how many data events the upstream side has emitted
  env               \* what the environment may do in this run (never changes)

vars == <<readyState, recognizeStream, streams, opened, timers, received,
          written, sent, emitted, env>>

\* --------------------------------------------------- the upstream stream
\* A stream object as the handlers see it.  ends counts end() calls,
\* redestroyed records a destroy() call on a stream already destroyed.
NewStream ==
  [writable |-> TRUE, destroyed |-> FALSE, closed |-> FALSE, err |-> "none",
   ends |-> 0, redestroyed |-> FALSE]

\* After 'close' the stream emits nothing more and no handler reaches it
\* again (every close clears the handle): all that is kept is that it is closed.
ClosedStream ==
  [NewStream EXCEPT !.writable = FALSE, !.destroyed = TRUE, !.closed = TRUE]

\* recognizeStream.end(): half-closes the write side; writable becomes false.
StreamEnd(st) ==
  [st EXCEPT !.writable = FALSE, !.ends = IF @ < 2 THEN @ + 1 ELSE @]

\* recognizeStream.destroy(err?): marks the stream destroyed; with an error
\* argument the stream emits 'error' (once in its life), then 'close'.
\* On a stream already destroyed the call does nothing.
StreamDestroy(st, withErr) ==
  IF st.destroyed
    THEN [st EXCEPT !.redestroyed = TRUE]
    ELSE [st EXCEPT !.destroyed = TRUE,
                    !.err = IF withErr /\ @ = "none" THEN "pending" ELSE @]

\* Mutant of Ready: the test of writable is missing.
Ready_IgnoresWritable(s) ==
  /\ recognizeStream[s] # NoStream
  /\ ~streams[s][recognizeStream[s]].destroyed

\* recognizeStream && !recognizeStream.destroyed && recognizeStream.writable
Ready(s) ==
  /\ recognizeStream[s] # NoStream
  /\ ~streams[s][recognizeStream[s]].destroyed
  /\ streams[s][recognizeStream[s]].writable

\* ------------------------------------------------------ client messages
ErrorMsg(i) ==
  [type |-> "error", text |-> "Google API Error", isFinal |-> FALSE,
   src |-> i, srcFinal |-> FALSE]

StartFailedMsg ==
  [type |-> "error", text |-> "Internal failure starting transcription service.",
   isFinal |-> FALSE, src |-> 0, srcFinal |-> FALSE]

TranscriptMsg(t, f, n, nf) ==
  [type |-> "transcript", text |-> t, isFinal |-> f, src |-> n, srcFinal |-> nf]

\* Mutant of SendIfOpen: the message jumps the queue of what was sent.
SendIfOpen_Front(s, msg) ==
  IF readyState[s] = "OPEN" THEN <<msg>> \o sent[s] ELSE sent[s]

\* Mutant of SendIfOpen: ws.send is called whatever the readyState.
SendIfOpen_Unconditional(s, msg) == Append(sent[s], msg)

\* ws.readyState === WebSocket.OPEN, then ws.send(msg)
SendIfOpen(s, msg) ==
  IF readyState[s] = "OPEN" THEN Append(sent[s], msg) ELSE sent[s]

\* ----------------------------------------------------------- environment
\* What a client can send as a binary frame: its receipt number and its
\* byte length (8 = two float samples, 7 = not a whole number of samples).
FrameLens == {7, 8}

\* A float sample is a multiple of 1/SampleDen, held as its numerator: such
\* a value is a float32, and its product with 32767 is exact in a double.
SampleDen == 4
Silence(n) == [i \in 1..n |-> 0]

\* The frame's bytes seen as a Float32Array: one sample for every 4 bytes.
AudioFrame(n, len, samples) == [id |-> n, len |-> len, samples |-> samples]

\* The silent frame of a given byte length.
Frame(n, len) == AudioFrame(n, len, Silence(len \div BYTES_PER_SAMPLE))

\* The payloads of the runs that are about streams rather than about audio.
SilentAudio == {Silence(len \div BYTES_PER_SAMPLE) : len \in FrameLens}

\* The frames of the run that is about audio: 8 bytes of samples inside,
\* at and beyond the range [-1, 1] (1/4, 3/4, 1, 5/4 and their negatives),
\* and 4000 bytes of silence.
AudioLens == {8, 4000}
AudioPayloads ==
  { <<1, -1>>, <<3, -3>>, <<-4, 4>>, <<5, -5>>, Silence(2),
    Silence(4000 \div BYTES_PER_SAMPLE) }

\* What a client can send as a text frame, and what JSON.parse makes of it.
StopText    == "{\"command\":\"stopStreaming\"}"
OtherText   == "{\"command\":\"pause\"}"
GarbageText == "stop"
TextMessages == {StopText, OtherText, GarbageText}

JsonParse(message) ==
  CASE message = StopText  -> [ok |-> TRUE,  command |-> "stopStreaming"]
    [] message = OtherText -> [ok |-> TRUE,  command |-> "pause"]
    [] OTHER               -> [ok |-> FALSE, command |-> ""]

\* StreamingRecognizeResponse objects the recognizer can emit.  The client
\* library names the finality flag of a result isFinal.
Alt(t) == [transcript |-> t]
Result(alts, final) == [alternatives |-> alts, isFinal |-> final]
DataEvents ==
  { [results |-> <<>>],
    [results |-> <<Result(<<>>, FALSE)>>],
    [results |-> <<Result(<<Alt("")>>, TRUE)>>],
    [results |-> <<Result(<<Alt("oi")>>, FALSE)>>],
    [results |-> <<Result(<<Alt("oi")>>, TRUE)>>],
    [results |-> <<Result(<<>>, FALSE), Result(<<Alt("oi")>>, FALSE)>>] }

\* One event without a result and one final transcript: the events of the
\* runs that are about frames and streams rather than about the relay.
PlainEvents ==
  { [results |-> <<>>], [results |-> <<Result(<<Alt("oi")>>, TRUE)>>] }

\* The finality flag an upstream event carries (FALSE when it has no result).
FinalityOf(data) ==
  IF Len(data.results) > 0 THEN data.results[1].isFinal ELSE FALSE

\* -------------------------------------------------------------- handlers
\* Mutant of StartGoogleStream: the catch block logs the failure and tells
\* the client nothing.
StartGoogleStream_Unreported(s, throws) ==
  IF throws
    THEN /\ recognizeStream' = [recognizeStream EXCEPT ![s] = NoStream]
         /\ UNCHANGED <<streams, opened, sent>>
    ELSE LET i == opened[s] + 1 IN
         /\ opened' = [opened EXCEPT ![s] = i]
         /\ streams' = [streams EXCEPT ![s][i] = NewStream]
         /\ recognizeStream' = [recognizeStream EXCEPT ![s] = i]
         /\ UNCHANGED sent

\* startGoogleStream: streamingRecognize either returns a new stream, which
\* becomes the session's handle, or throws synchronously.
StartGoogleStream(s, throws) ==
  IF throws
    THEN /\ sent' = [sent EXCEPT ![s] = SendIfOpen(s, StartFailedMsg)]
         /\ recognizeStream' = [recognizeStream EXCEPT ![s] = NoStream]
         /\ UNCHANGED <<streams, opened>>
    ELSE LET i == opened[s] + 1 IN
         /\ opened' = [opened EXCEPT ![s] = i]
         /\ streams' = [streams EXCEPT ![s][i] = NewStream]
         /\ recognizeStream' = [recognizeStream EXCEPT ![s] = i]
         /\ UNCHANGED sent

\* Math.min / Math.max of two numbers.
MathMin(a, b) == IF a < b THEN a ELSE b
MathMax(a, b) == IF a > b THEN a ELSE b

\* The integer part of num/den, as the conversion of a number to an integer
\* takes it: towards zero.
Truncate(num, den) ==
  IF num >= 0 THEN num \div den ELSE -((-num) \div den)

\* Storing a number in an Int16Array element: its integer part, modulo 2^16,
\* read as a signed 16-bit value.
ToInt16(num, den) ==
  LET m == Truncate(num, den) % 65536 IN
  IF m >= 32768 THEN m - 65536 ELSE m

\* int16Array[i] = Math.max(-32768, Math.min(32767, float32Array[i] * 32767)),
\* for the float n/SampleDen; the arithmetic is in units of 1/SampleDen.
FloatToInt16(n) ==
  ToInt16(MathMax(INT16_MIN * SampleDen,
                  MathMin(INT16_MAX * SampleDen, n * SAMPLE_SCALE)),
          SampleDen)

\* Mutant of ConvertSamples: the Int16Array is sized by the frame's bytes (two
\* bytes to a sample) instead of by its float samples.
ConvertSamples_SizedByBytes(samples) ==
  [i \in 1..(2 * Len(samples)) |->
     IF i <= Len(samples) THEN FloatToInt16(samples[i]) ELSE 0]

\* The Int16Array made of a frame's Float32Array.
ConvertSamples(samples) == [i \in 1..Len(samples) |-> FloatToInt16(samples[i])]

\* processAndSendAudio: drop a frame that is not a whole number of float
\* samples; otherwise convert and write it if the handle is ready.  A write
\* is logged with the stream, the frame and its samples, and the data written.
ProcessAndSendAudio(s, f) ==
  written' = [written EXCEPT ![s] =
     IF f.len % BYTES_PER_SAMPLE # 0 THEN @
     ELSE IF Ready(s)
            THEN Append(@, [stream |-> recognizeStream[s], frame |-> f.id,
                            input |-> f.samples,
                            data |-> ConvertSamples(f.samples)])
            ELSE @]

\* The setTimeout callback queued for the frame that called
\* startGoogleStream.  It holds the frame; failed and streamsBefore record
\* how the call ended (it threw; the streams the session had opened when it
\* returned).
Deferred(f, failed, n) == [frame |-> f, failed |-> failed, streamsBefore |-> n]

\* Mutant of OnAudio: the branch that starts a stream does not return, so
\* the frame is written to the new stream at once and again by its timer.
OnAudio_FallsThroughAfterStart(s, f, throws) ==
  /\ readyState[s] = "OPEN"
  /\ received[s] < env.frames[s]
  /\ f.id = received[s] + 1
  /\ received' = [received EXCEPT ![s] = f.id]
  /\ IF recognizeStream[s] = NoStream \/ streams[s][recognizeStream[s]].destroyed
       THEN IF recognizeStream[s] = NoStream
              THEN /\ throws \/ opened[s] < env.streams
                   /\ StartGoogleStream(s, throws)
                   /\ timers' = [timers EXCEPT ![s] =
                                   Append(@, Deferred(f, throws, opened'[s]))]
                   /\ written' = [written EXCEPT ![s] =
                        IF throws \/ f.len % BYTES_PER_SAMPLE # 0 THEN @
                        ELSE Append(@, [stream |-> recognizeStream'[s],
                                        frame |-> f.id, input |-> f.samples,
                                        data |-> ConvertSamples(f.samples)])]
              ELSE /\ ~throws
                   /\ UNCHANGED <<recognizeStream, streams, opened, timers,
                                  written, sent>>
       ELSE /\ ~throws
            /\ IF Ready(s) THEN ProcessAndSendAudio(s, f) ELSE UNCHANGED written
            /\ UNCHANGED <<recognizeStream, streams, opened, timers, sent>>
  /\ UNCHANGED <<readyState, emitted, env>>

\* Mutant of OnAudio: a frame that finds the stream ready is handed to a
\* timer like the first one instead of being written at once.
OnAudio_DefersEveryFrame(s, f, throws) ==
  /\ readyState[s] = "OPEN"
  /\ received[s] < env.frames[s]
  /\ f.id = received[s] + 1
  /\ received' = [received EXCEPT ![s] = f.id]
  /\ IF recognizeStream[s] = NoStream \/ streams[s][recognizeStream[s]].destroyed
       THEN IF recognizeStream[s] = NoStream
              THEN /\ throws \/ opened[s] < env.streams
                   /\ StartGoogleStream(s, throws)
                   /\ timers' = [timers EXCEPT ![s] =
                                   Append(@, Deferred(f, throws, opened'[s]))]
                   /\ UNCHANGED written
              ELSE /\ ~throws
                   /\ UNCHANGED <<recognizeStream, streams, opened, timers,
                                  written, sent>>
       ELSE /\ ~throws
            /\ timers' = [timers EXCEPT ![s] =
                            IF Ready(s) THEN Append(@, Deferred(f, FALSE, opened[s]))
                                        ELSE @]
            /\ UNCHANGED <<recognizeStream, streams, opened, written, sent>>
  /\ UNCHANGED <<readyState, emitted, env>>

\* Mutant of OnAudio: a frame that finds the handle on a destroyed stream
\* starts a new stream and a timer, as a frame that finds no handle does.
OnAudio_RestartsOnDestroyed(s, f, throws) ==
  /\ readyState[s] = "OPEN"
  /\ received[s] < env.frames[s]
  /\ f.id = received[s] + 1
  /\ received' = [received EXCEPT ![s] = f.id]
  /\ IF recognizeStream[s] = NoStream \/ streams[s][recognizeStream[s]].destroyed
       THEN /\ throws \/ opened[s] < env.streams
            /\ StartGoogleStream(s, throws)
            /\ timers' = [timers EXCEPT ![s] =
                            Append(@, Deferred(f, throws, opened'[s]))]
            /\ UNCHANGED written
       ELSE /\ ~throws
            /\ IF Ready(s) THEN ProcessAndSendAudio(s, f) ELSE UNCHANGED written
            /\ UNCHANGED <<recognizeStream, streams, opened, timers, sent>>
  /\ UNCHANGED <<readyState, emitted, env>>

\* ws.on('message'), binary branch.
OnAudio(s, f, throws) ==
  /\ readyState[s] = "OPEN"
  /\ received[s] < env.frames[s]
  /\ f.id = received[s] + 1
  /\ received' = [received EXCEPT ![s] = f.id]
  /\ IF recognizeStream[s] = NoStream \/ streams[s][recognizeStream[s]].destroyed
       THEN IF recognizeStream[s] = NoStream
              THEN /\ throws \/ opened[s] < env.streams
                   /\ StartGoogleStream(s, throws)
                   /\ timers' = [timers EXCEPT ![s] =
                                   Append(@, Deferred(f, throws, opened'[s]))]
                   /\ UNCHANGED written
              ELSE /\ ~throws
                   /\ UNCHANGED <<recognizeStream, streams, opened, timers,
                                  written, sent>>
       ELSE /\ ~throws
            /\ IF Ready(s) THEN ProcessAndSendAudio(s, f) ELSE UNCHANGED written
            /\ UNCHANGED <<recognizeStream, streams, opened, timers, sent>>
  /\ UNCHANGED <<readyState, emitted, env>>

\* Mutant of OnTimer: a frame that finds the stream not ready is queued
\* again for a later attempt.
OnTimer_Requeues(s) ==
  /\ timers[s] # <<>>
  /\ IF Ready(s)
       THEN /\ ProcessAndSendAudio(s, Head(timers[s]).frame)
            /\ timers' = [timers EXCEPT ![s] = Tail(@)]
       ELSE /\ UNCHANGED written
            /\ timers' = [timers EXCEPT ![s] = Append(Tail(@), Head(@))]
  /\ UNCHANGED <<readyState, recognizeStream, streams, opened, received, sent,
                 emitted, env>>

\* The setTimeout callback of the frame that started a stream.
OnTimer(s) ==
  /\ timers[s] # <<>>
  /\ timers' = [timers EXCEPT ![s] = Tail(@)]
  /\ IF Ready(s) THEN ProcessAndSendAudio(s, Head(timers[s]).frame)
                 ELSE UNCHANGED written
  /\ UNCHANGED <<readyState, recognizeStream, streams, opened, received, sent,
                 emitted, env>>

\* Mutant of OnText: stopStreaming ends the stream without asking whether it
\* is still writable.
OnText_NoWritableCheck(s, message) ==
  /\ readyState[s] = "OPEN"
  /\ LET command == JsonParse(message)
         h == recognizeStream[s] IN
     IF command.ok /\ command.command = "stopStreaming"
        /\ h # NoStream /\ ~streams[s][h].destroyed
       THEN streams' = [streams EXCEPT ![s][h] = StreamEnd(@)]
       ELSE UNCHANGED streams
  /\ UNCHANGED <<readyState, recognizeStream, opened, timers, received, written,
                 sent, emitted, env>>

\* Mutant of OnText: a text that does not parse is answered with an error
\* message to the client.
OnText_RepliesToBadText(s, message) ==
  /\ readyState[s] = "OPEN"
  /\ LET command == JsonParse(message) IN
     /\ IF command.ok /\ command.command = "stopStreaming" /\ Ready(s)
          THEN streams' = [streams EXCEPT ![s][recognizeStream[s]] = StreamEnd(@)]
          ELSE UNCHANGED streams
     /\ IF command.ok
          THEN UNCHANGED sent
          ELSE sent' = [sent EXCEPT ![s] = SendIfOpen(s, StartFailedMsg)]
  /\ UNCHANGED <<readyState, recognizeStream, opened, timers, received, written,
                 emitted, env>>

\* ws.on('message'), text branch.
OnText(s, message) ==
  /\ readyState[s] = "OPEN"
  /\ LET command == JsonParse(message) IN
     IF command.ok /\ command.command = "stopStreaming" /\ Ready(s)
       THEN streams' = [streams EXCEPT ![s][recognizeStream[s]] = StreamEnd(@)]
       ELSE UNCHANGED streams
  /\ UNCHANGED <<readyState, recognizeStream, opened, timers, received, written,
                 sent, emitted, env>>

\* Mutant of OnWsClose: the handler leaves the stream and the handle alone.
OnWsClose_KeepsHandle(s) ==
  /\ readyState[s] \in {"OPEN", "CLOSING"}
  /\ readyState' = [readyState EXCEPT ![s] = "CLOSED"]
  /\ UNCHANGED <<recognizeStream, streams, opened, timers, received, written,
                 sent, emitted, env>>

\* Mutant of OnWsClose: the handle is one variable of the module, shared by
\* all connections, so that clearing it clears it for every session.
OnWsClose_SharedHandle(s) ==
  /\ readyState[s] \in {"OPEN", "CLOSING"}
  /\ readyState' = [readyState EXCEPT ![s] = "CLOSED"]
  /\ LET h == recognizeStream[s] IN
     IF h # NoStream /\ ~streams[s][h].destroyed /\ streams[s][h].writable
       THEN streams' = [streams EXCEPT ![s][h] = StreamEnd(@)]
       ELSE UNCHANGED streams
  /\ recognizeStream' = [t \in SessionIds |-> NoStream]
  /\ UNCHANGED <<opened, timers, received, written, sent, emitted, env>>

\* Mutant of OnWsClose: the handler also destroys the stream it has ended.
OnWsClose_EndsAndDestroys(s) ==
  /\ readyState[s] \in {"OPEN", "CLOSING"}
  /\ readyState' = [readyState EXCEPT ![s] = "CLOSED"]
  /\ LET h == recognizeStream[s] IN
     IF h # NoStream /\ ~streams[s][h].destroyed
       THEN streams' = [streams EXCEPT ![s][h] =
                          StreamDestroy(IF @.writable THEN StreamEnd(@) ELSE @, FALSE)]
       ELSE UNCHANGED streams
  /\ recognizeStream' = [recognizeStream EXCEPT ![s] = NoStream]
  /\ UNCHANGED <<opened, timers, received, written, sent, emitted, env>>

\* Mutant of OnWsClose: the handler calls end() on any stream that is not
\* destroyed, without the test of writable.
OnWsClose_NoWritableCheck(s) ==
  /\ readyState[s] \in {"OPEN", "CLOSING"}
  /\ readyState' = [readyState EXCEPT ![s] = "CLOSED"]
  /\ LET h == recognizeStream[s] IN
     IF h # NoStream /\ ~streams[s][h].destroyed
       THEN streams' = [streams EXCEPT ![s][h] = StreamEnd(@)]
       ELSE UNCHANGED streams
  /\ recognizeStream' = [recognizeStream EXCEPT ![s] = NoStream]
  /\ UNCHANGED <<opened, timers, received, written, sent, emitted, env>>

\* ws.on('close')
OnWsClose(s) ==
  /\ readyState[s] \in {"OPEN", "CLOSING"}
  /\ readyState' = [readyState EXCEPT ![s] = "CLOSED"]
  /\ LET h == recognizeStream[s] IN
     IF h # NoStream /\ ~streams[s][h].destroyed /\ streams[s][h].writable
       THEN streams' = [streams EXCEPT ![s][h] = StreamEnd(@)]
       ELSE UNCHANGED streams
  /\ recognizeStream' = [recognizeStream EXCEPT ![s] = NoStream]
  /\ UNCHANGED <<opened, timers, received, written, sent, emitted, env>>

\* Mutant of OnWsError: the handler half-closes the stream before it destroys
\* it, as a disconnect would.
OnWsError_EndsFirst(s) ==
  /\ readyState[s] = "OPEN"
  /\ readyState' = [readyState EXCEPT ![s] = "CLOSING"]
  /\ LET h == recognizeStream[s] IN
     IF h # NoStream /\ ~streams[s][h].destroyed
       THEN streams' = [streams EXCEPT ![s][h] = StreamDestroy(StreamEnd(@), TRUE)]
       ELSE UNCHANGED streams
  /\ recognizeStream' = [recognizeStream EXCEPT ![s] = NoStream]
  /\ UNCHANGED <<opened, timers, received, written, sent, emitted, env>>

\* ws.on('error')
OnWsError(s) ==
  /\ readyState[s] = "OPEN"
  /\ readyState' = [readyState EXCEPT ![s] = "CLOSING"]
  /\ LET h == recognizeStream[s] IN
     IF h # NoStream /\ ~streams[s][h].destroyed
       THEN streams' = [streams EXCEPT ![s][h] = StreamDestroy(@, TRUE)]
       ELSE UNCHANGED streams
  /\ recognizeStream' = [recognizeStream EXCEPT ![s] = NoStream]
  /\ UNCHANGED <<opened, timers, received, written, sent, emitted, env>>

\* The recognizer or the transport fails stream i: an 'error' event is now
\* due; autoDestroy says whether the stream is already destroyed when its
\* handlers run.
UpstreamFail(s, i, autoDestroy) ==
  /\ i <= opened[s]
  /\ ~streams[s][i].closed /\ ~streams[s][i].destroyed
  /\ streams[s][i].err = "none"
  /\ streams' = [streams EXCEPT ![s][i] =
        [@ EXCEPT !.err = "pending", !.destroyed = autoDestroy]]
  /\ UNCHANGED <<readyState, recognizeStream, opened, timers, received, written,
                 sent, emitted, env>>

\* Mutant of OnStreamError: after tearing the stream down the handler
\* opens a new one by itself.
OnStreamError_Reconnects(s, i) ==
  /\ i <= opened[s]
  /\ ~streams[s][i].closed
  /\ streams[s][i].err = "pending"
  /\ sent' = [sent EXCEPT ![s] = SendIfOpen(s, ErrorMsg(i))]
  /\ LET h == recognizeStream[s]
         emittedOn == [streams[s] EXCEPT ![i].err = "emitted"]
         tornDown == IF h # NoStream
                       THEN [emittedOn EXCEPT ![h] = StreamDestroy(@, TRUE)]
                       ELSE emittedOn IN
     IF opened[s] < env.streams
       THEN /\ opened' = [opened EXCEPT ![s] = @ + 1]
            /\ streams' = [streams EXCEPT ![s] =
                             [tornDown EXCEPT ![opened[s] + 1] = NewStream]]
            /\ recognizeStream' = [recognizeStream EXCEPT ![s] = opened[s] + 1]
       ELSE /\ streams' = [streams EXCEPT ![s] = tornDown]
            /\ recognizeStream' = [recognizeStream EXCEPT ![s] = NoStream]
            /\ UNCHANGED opened
  /\ UNCHANGED <<readyState, timers, received, written, emitted, env>>

\* recognizeStream.on('error') of stream i.
OnStreamError(s, i) ==
  /\ i <= opened[s]
  /\ ~streams[s][i].closed
  /\ streams[s][i].err = "pending"
  /\ sent' = [sent EXCEPT ![s] = SendIfOpen(s, ErrorMsg(i))]
  /\ LET h == recognizeStream[s]
         emittedOn == [streams[s] EXCEPT ![i].err = "emitted"] IN
     streams' = [streams EXCEPT ![s] =
        IF h # NoStream
          THEN [emittedOn EXCEPT ![h] = StreamDestroy(@, TRUE)]
          ELSE emittedOn]
  /\ recognizeStream' = [recognizeStream EXCEPT ![s] = NoStream]
  /\ UNCHANGED <<readyState, opened, timers, received, written, emitted, env>>

\* const isFinal = result.is_final || false
IsFinalOf(result) ==
  IF "is_final" \in DOMAIN result THEN result["is_final"] ELSE FALSE

\* Mutant of OnStreamData: the test of the transcript is missing, an empty
\* transcript is relayed like any other.
OnStreamData_RelaysEmpty(s, i, data) ==
  /\ i <= opened[s]
  /\ ~streams[s][i].closed /\ ~streams[s][i].destroyed
  /\ streams[s][i].err = "none"
  /\ emitted[s] < env.events
  /\ emitted' = [emitted EXCEPT ![s] = @ + 1]
  /\ sent' = [sent EXCEPT ![s] =
       IF /\ Len(data.results) > 0
          /\ Len(data.results[1].alternatives) > 0
         THEN SendIfOpen(s, TranscriptMsg(data.results[1].alternatives[1].transcript,
                                          IsFinalOf(data.results[1]),
                                          emitted[s] + 1, FinalityOf(data)))
         ELSE @]
  /\ UNCHANGED <<readyState, recognizeStream, streams, opened, timers, received,
                 written, env>>

\* recognizeStream.on('data') of stream i.
OnStreamData(s, i, data) ==
  /\ i <= opened[s]
  /\ ~streams[s][i].closed /\ ~streams[s][i].destroyed
  /\ streams[s][i].err = "none"
  /\ emitted[s] < env.events
  /\ emitted' = [emitted EXCEPT ![s] = @ + 1]
  /\ sent' = [sent EXCEPT ![s] =
       IF /\ Len(data.results) > 0
          /\ Len(data.results[1].alternatives) > 0
          /\ data.results[1].alternatives[1].transcript # ""
         THEN SendIfOpen(s, TranscriptMsg(data.results[1].alternatives[1].transcript,
                                          IsFinalOf(data.results[1]),
                                          emitted[s] + 1, FinalityOf(data)))
         ELSE @]
  /\ UNCHANGED <<readyState, recognizeStream, streams, opened, timers, received,
                 written, env>>

\* recognizeStream.on('close') of stream i.
OnStreamClose(s, i) ==
  /\ i <= opened[s]
  /\ ~streams[s][i].closed
  /\ streams[s][i].err # "pending"
  /\ \/ streams[s][i].destroyed
     \/ ~streams[s][i].writable
     \/ streams[s][i].err = "emitted"
  /\ streams' = [streams EXCEPT ![s][i] = ClosedStream]
  /\ recognizeStream' = [recognizeStream EXCEPT ![s] = NoStream]
  /\ UNCHANGED <<readyState, opened, timers, received, written, sent, emitted, env>>

\* ------------------------------------------------------- specification
\* wss.on('connection'): a fresh session for each connected client; the
\* sessions in open are connected, the others are not.
InitSession(open, e) ==
  /\ readyState = [s \in SessionIds |-> IF s \in open THEN "OPEN" ELSE "ABSENT"]
  /\ recognizeStream = [s \in SessionIds |-> NoStream]
  /\ streams = [s \in SessionIds |-> [i \in StreamIds |-> NewStream]]
  /\ opened = [s \in SessionIds |-> 0]
  /\ timers = [s \in SessionIds |-> <<>>]
  /\ received = [s \in SessionIds |-> 0]
  /\ written = [s \in SessionIds |-> <<>>]
  /\ sent = [s \in SessionIds |-> <<>>]
  /\ emitted = [s \in SessionIds |-> 0]
  /\ env = e

Init ==
  InitSession({"s1"},
    [frames |-> [s \in SessionIds |-> MaxFrames], streams |-> MaxStreams, events |-> 1,
     lens |-> FrameLens, audio |-> SilentAudio, throws |-> BOOLEAN,
     data |-> PlainEvents])

InitStale ==
  InitSession({"s1"},
    [frames |-> [s \in SessionIds |-> StaleFrames], streams |-> StaleStreams, events |-> 1,
     lens |-> {8}, audio |-> SilentAudio, throws |-> {FALSE},
     data |-> {[results |-> <<>>]}])

InitRelay ==
  InitSession({"s1"},
    [frames |-> [s \in SessionIds |-> 1], streams |-> 1, events |-> RelayEvents,
     lens |-> {8}, audio |-> SilentAudio, throws |-> {FALSE},
     data |-> DataEvents])

InitAudio ==
  InitSession({"s1"},
    [frames |-> [s \in SessionIds |-> AudioFrames], streams |-> 1, events |-> 1,
     lens |-> AudioLens, audio |-> AudioPayloads, throws |-> {FALSE},
     data |-> {[results |-> <<>>]}])

\* Two clients are connected; the second sends one frame at most.
InitPair ==
  InitSession({"s1", "s2"},
    [frames |-> [s \in SessionIds |-> IF s = "s1" THEN PairFrames ELSE 1],
     streams |-> 1, events |-> 1, lens |-> {8}, audio |-> SilentAudio,
     throws |-> BOOLEAN, data |-> {[results |-> <<Result(<<Alt("oi")>>, TRUE)>>]}])

\* One event handled for session s.
SessionStep(s) ==
  \/ \E len \in env.lens, samples \in env.audio, throws \in env.throws :
       /\ Len(samples) = len \div BYTES_PER_SAMPLE
       /\ OnAudio(s, AudioFrame(received[s] + 1, len, samples), throws)
  \/ OnTimer(s)
  \/ \E message \in TextMessages : OnText(s, message)
  \/ OnWsClose(s)
  \/ OnWsError(s)
  \/ \E i \in StreamIds, autoDestroy \in BOOLEAN : UpstreamFail(s, i, autoDestroy)
  \/ \E i \in StreamIds : OnStreamError(s, i)
  \/ \E i \in StreamIds, data \in env.data : OnStreamData(s, i, data)
  \/ \E i \in StreamIds : OnStreamClose(s, i)

Next == \E s \in SessionIds : SessionStep(s)

Spec      == Init /\ [][Next]_vars
SpecStale == InitStale /\ [][Next]_vars
SpecRelay == InitRelay /\ [][Next]_vars
SpecAudio == InitAudio /\ [][Next]_vars
SpecPair  == InitPair /\ [][Next]_vars

\* What the event loop and the stream guarantee: a timer that is due fires,
\* and a stream that has an 'error' or a 'close' to emit emits it.  That a
\* client sends anything, or that the recognizer answers or fails, is not
\* guaranteed.
Fairness ==
  \A s \in SessionIds :
    /\ WF_vars(OnTimer(s))
    /\ \A i \in StreamIds :
         WF_vars(OnStreamError(s, i)) /\ WF_vars(OnStreamClose(s, i))

SpecLive == Init /\ [][Next]_vars /\ Fairness

\* ------------------------------------------------------------- vocabulary
Opened(s) == 1..opened[s]

\* A stream is live from its creation until it is destroyed or closed.
Live(s, i) ==
  i \in Opened(s) /\ ~streams[s][i].closed /\ ~streams[s][i].destroyed

\* end() has been called on the stream and it is not torn down yet.
HalfClosed(s, i) ==
  /\ i \in Opened(s)
  /\ streams[s][i].ends > 0
  /\ ~streams[s][i].closed /\ ~streams[s][i].destroyed

\* The step is the handling of a binary frame.
AudioStep(s) == received'[s] = received[s] + 1
Transcripts(s) == SelectSeq(sent[s], LAMBDA m : m.type = "transcript")

\* ------------------------------------------------------------------ C1
\* C1: in every reachable state at most one stream opened by a session is
\* live (created, neither closed nor destroyed), so a stream is only ever
\* opened when no earlier stream of the session is still live.
C1_AtMostOneLiveStream ==
  \A s \in SessionIds : Cardinality({i \in StreamIds : Live(s, i)}) <= 1

\* ------------------------------------------------------------------ C2
\* C2: the frames written upstream by a session appear in the order the
\* client sent them (receipt numbers increase along the log of writes).
C2_WritesInReceiptOrder ==
  \A s \in SessionIds : \A a, b \in 1..Len(written[s]) :
    a < b => written[s][a].frame < written[s][b].frame

\* ------------------------------------------------------------------ C3
\* C3: handling a binary frame whose length is not a multiple of 4 writes
\* nothing upstream, sends nothing to the client and leaves the upstream
\* handle and the streams as they were.
C3_MalformedFrameChangesNothing ==
  [][\A s \in SessionIds : \A len \in FrameLens, throws \in BOOLEAN :
       (len % BYTES_PER_SAMPLE # 0 /\ OnAudio(s, Frame(received[s] + 1, len), throws))
         => UNCHANGED <<written, sent, recognizeStream, streams, opened>>]_vars

\* ------------------------------------------------------------------ C4
\* C4: when a stream emits 'error' while the client is open, exactly one
\* error message for it is sent, the stream is destroyed and the handle
\* is absent afterwards.
C4_UpstreamErrorTerminates ==
  [][\A s \in SessionIds : \A i \in StreamIds :
       (OnStreamError(s, i) /\ readyState[s] = "OPEN")
         => /\ sent'[s] = Append(sent[s], ErrorMsg(i))
            /\ streams'[s][i].destroyed
            /\ recognizeStream'[s] = NoStream]_vars

\* ------------------------------------------------------------------ C5
\* C5: however the terminating events combine, no upstream error is sent to
\* the client twice and destroy is never called on a stream that is
\* already destroyed.
C5_TeardownIdempotent ==
  \A s \in SessionIds :
    /\ \A i \in StreamIds : ~streams[s][i].redestroyed
    /\ \A a, b \in 1..Len(sent[s]) :
         (a < b /\ sent[s][a].type = "error" /\ sent[s][a].src # 0)
           => sent[s][b] # sent[s][a]

\* ------------------------------------------------------------------ C6
\* C6: a stopStreaming received on a ready stream half-closes it without
\* destroying it, and as long as a half-closed stream is not torn down no
\* frame that arrives is written upstream or opens another stream.
C6_StopHalfCloses ==
  [][\A s \in SessionIds :
       /\ (OnText(s, StopText) /\ Ready(s))
            => /\ streams'[s][recognizeStream[s]].ends = 1
               /\ ~streams'[s][recognizeStream[s]].destroyed
       /\ (AudioStep(s) /\ \E i \in StreamIds : HalfClosed(s, i))
            => /\ written'[s] = written[s]
               /\ opened'[s] = opened[s]]_vars

C8_TranscriptsInEmissionOrder ==
  \A s \in SessionIds :
    LET ts == Transcripts(s) IN
    /\ \A a \in 1..Len(ts) : ts[a].src <= emitted[s]
    /\ \A a, b \in 1..Len(ts) : a < b => ts[a].src < ts[b].src

C8_Witness == Len(Transcripts("s1")) >= 2

\* ------------------------------------------------------------------ C9
\* C9: every transcript message carries as isFinal the finality flag of
\* the upstream event it relays.
C9_IsFinalPreserved ==
  \A s \in SessionIds : \A a \in 1..Len(sent[s]) :
    sent[s][a].type = "transcript" => sent[s][a].isFinal = sent[s][a].srcFinal

\* ----------------------------------------------------------------- C10
\* C10: a stopStreaming received when the handle is absent, destroyed or
\* already half-closed calls nothing on any stream, leaves the handle as it
\* is, opens no stream and sends nothing.
C10_StopWithoutReadyStreamIsNoOp ==
  [][\A s \in SessionIds :
       (OnText(s, StopText) /\ ~Ready(s))
         => UNCHANGED <<streams, recognizeStream, opened, sent, written>>]_vars

\* The client is open and the handle is a half-closed stream.
C10_Witness ==
  /\ readyState["s1"] = "OPEN"
  /\ recognizeStream["s1"] # NoStream
  /\ HalfClosed("s1", recognizeStream["s1"])

\* ----------------------------------------------------------------- C11
\* The integer nearest to num/den.
RoundNearest(num, den) == (2 * num + den) \div (2 * den)
Clamp(x, lo, hi) == IF x < lo THEN lo ELSE IF x > hi THEN hi ELSE x

\* C11: every write made for a well-formed frame carries one 16-bit sample
\* for each float sample of the frame, equal to
\* clamp(round(input[i] * 32767), -32768, 32767).
C11_SamplesRoundedAndClamped ==
  \A s \in SessionIds : \A k \in 1..Len(written[s]) :
    LET w == written[s][k] IN
    /\ Len(w.data) = Len(w.input)
    /\ \A i \in 1..Len(w.input) :
         w.data[i] = Clamp(RoundNearest(w.input[i] * 32767, SampleDen),
                           -32768, 32767)

\* ----------------------------------------------------------------- C12
\* The timer of the only frame a client has sent, a 4000-byte frame of
\* silence, fires on a session nothing else has happened to: the client is
\* open and the stream the frame opened is the handle and untouched.
SilentFrameDue(s) ==
  /\ OnTimer(s)
  /\ received[s] = 1
  /\ Head(timers[s]).frame = Frame(1, 4000)
  /\ readyState[s] = "OPEN"
  /\ recognizeStream[s] = 1
  /\ streams[s][1] = NewStream

NoErrorSent(msgs) == \A k \in 1..Len(msgs) : msgs[k].type # "error"

\* C12: a client connects and sends one 4000-byte all-zero frame; the
\* upstream stream then receives exactly one write, of 2000 zero samples,
\* and no error message has been sent to the client.
C12_SilentFrameWrites2000Samples ==
  [][\A s \in SessionIds :
       SilentFrameDue(s)
         => /\ Len(written'[s]) = 1
            /\ written'[s][1].stream = 1
            /\ written'[s][1].data = Silence(2000)
            /\ NoErrorSent(sent'[s])]_vars

\* C12 as amended: the write has 1000 zero samples (2000 bytes), one for
\* each 4-byte float of the frame.
C12_SilentFrameWrites1000Samples ==
  [][\A s \in SessionIds :
       SilentFrameDue(s)
         => /\ Len(written'[s]) = 1
            /\ written'[s][1].stream = 1
            /\ written'[s][1].data = Silence(1000)
            /\ NoErrorSent(sent'[s])]_vars

\* The silent frame has been written and nothing else has happened.
C12_Witness ==
  /\ received["s1"] = 1 /\ timers["s1"] = <<>>
  /\ readyState["s1"] = "OPEN" /\ streams["s1"][1] = NewStream
  /\ Len(written["s1"]) = 1
  /\ written["s1"][1].input = Silence(1000)
  /\ written["s1"][1].data = Silence(1000)
  /\ sent["s1"] = <<>>

\* ----------------------------------------------------------------- C13
\* C13: with two sessions connected, an event handled for one session
\* (audio frame, command, client close or error, upstream data, error or
\* close, failed stream creation) leaves the other session's handle, its
\* streams, the log of writes to them and the messages sent to its client
\* as they were.
Untouched(t) ==
  /\ recognizeStream'[t] = recognizeStream[t]
  /\ streams'[t] = streams[t]
  /\ written'[t] = written[t]
  /\ sent'[t] = sent[t]
  /\ readyState'[t] = readyState[t]

C13_SessionsIsolated ==
  [][\A s \in SessionIds : \A t \in SessionIds \ {s} :
       Untouched(t) \/ ~SessionStep(s)]_vars

\* One session has failed and gone (its client was told of an upstream
\* error and has disconnected) while the other is streaming.
C13_Witness ==
  /\ readyState["s1"] = "CLOSED" /\ readyState["s2"] = "OPEN"
  /\ \E k \in 1..Len(sent["s1"]) : sent["s1"][k].type = "error"
  /\ recognizeStream["s1"] = NoStream
  /\ Ready("s2") /\ written["s2"] # <<>> /\ NoErrorSent(sent["s2"])

\* ----------------------------------------------------------------- C14
\* The step is the handling of a binary frame for which streamingRecognize
\* throws.
CreationThrows(s) ==
  \E len \in env.lens, samples \in env.audio :
    OnAudio(s, AudioFrame(received[s] + 1, len, samples), TRUE)

LastWrite(s) == written'[s][Len(written'[s])]

\* C14: when opening the stream throws, one error message is sent to the
\* open client, the handle is absent and nothing is written.  The handle
\* then stays absent until the next binary frame, and a binary frame that
\* finds the handle absent attempts creation again.  The frame of the failed
\* creation is written only by its timer, and only to a stream created
\* after the failure.
C14_FailedCreationRetried ==
  [][\A s \in SessionIds :
       /\ CreationThrows(s)
            => /\ sent'[s] = IF readyState[s] = "OPEN"
                               THEN Append(sent[s], StartFailedMsg) ELSE sent[s]
               /\ recognizeStream'[s] = NoStream
               /\ UNCHANGED <<written, streams, opened>>
       /\ (recognizeStream[s] = NoStream /\ ~AudioStep(s))
            => recognizeStream'[s] = NoStream
       /\ (recognizeStream[s] = NoStream /\ AudioStep(s))
            => \/ /\ opened'[s] = opened[s] + 1
                  /\ recognizeStream'[s] = opened'[s]
               \/ /\ sent'[s] = Append(sent[s], StartFailedMsg)
                  /\ recognizeStream'[s] = NoStream
       /\ (OnTimer(s) /\ Head(timers[s]).failed /\ written'[s] # written[s])
            => /\ LastWrite(s).frame = Head(timers[s]).frame.id
               /\ LastWrite(s).stream > Head(timers[s]).streamsBefore]_vars

\* Frame 1 met a failed creation, frame 2 opened stream 1, and the timer of
\* frame 1 has written frame 1 to it while the timer of frame 2 is pending.
C14_Witness ==
  /\ sent["s1"] = <<StartFailedMsg>>
  /\ Len(written["s1"]) = 1
  /\ written["s1"][1].frame = 1 /\ written["s1"][1].stream = 1
  /\ timers["s1"] # <<>>
  /\ Head(timers["s1"]).frame.id = 2 /\ ~Head(timers["s1"]).failed

\* ----------------------------------------------------------------- C15
\* Some result of the event has an alternative with a non-empty transcript.
SomeTranscript(data) ==
  \E r \in 1..Len(data.results) :
    \E a \in 1..Len(data.results[r].alternatives) :
      data.results[r].alternatives[a].transcript # ""

\* The first alternative of the first result of the event has a non-empty
\* transcript.
FirstTranscript(data) ==
  /\ Len(data.results) > 0
  /\ Len(data.results[1].alternatives) > 0
  /\ data.results[1].alternatives[1].transcript # ""

\* The handling of an event sends one transcript message and nothing else.
RelaysOne(s) ==
  /\ Len(sent'[s]) = Len(sent[s]) + 1
  /\ SubSeq(sent'[s], 1, Len(sent[s])) = sent[s]
  /\ sent'[s][Len(sent'[s])].type = "transcript"

\* C15: the handling of an upstream event sends exactly one transcript
\* message when the event carries at least one result with at least one
\* alternative and a non-empty transcript and the client is open; in every
\* other case it sends nothing; it never touches the stream or the handle.
C15_RelaysAnyTranscript ==
  [][\A s \in SessionIds : \A i \in StreamIds, data \in DataEvents :
       OnStreamData(s, i, data)
         => /\ IF SomeTranscript(data) /\ readyState[s] = "OPEN"
                 THEN RelaysOne(s) ELSE sent'[s] = sent[s]
            /\ UNCHANGED <<streams, recognizeStream>>]_vars

\* C15 as amended: the transcript that counts is that of the first
\* alternative of the first result.
C15_RelaysFirstTranscript ==
  [][\A s \in SessionIds : \A i \in StreamIds, data \in DataEvents :
       OnStreamData(s, i, data)
         => /\ IF FirstTranscript(data) /\ readyState[s] = "OPEN"
                 THEN /\ RelaysOne(s)
                      /\ sent'[s][Len(sent'[s])].text =
                           data.results[1].alternatives[1].transcript
                 ELSE sent'[s] = sent[s]
            /\ UNCHANGED <<streams, recognizeStream>>]_vars

\* Three events have been emitted; the first was dropped while the client
\* was open, the second was relayed, the third was dropped.
C15_Witness ==
  /\ emitted["s1"] = 3
  /\ Len(sent["s1"]) = 1
  /\ sent["s1"][1].type = "transcript" /\ sent["s1"][1].src = 2

\* ----------------------------------------------------------------- C16
\* C16: a text message that does not parse as JSON, or that parses to a
\* command other than stopStreaming, sends nothing to the client, calls
\* nothing on any stream, creates no stream and leaves the handle as it is;
\* the client stays connected and its later messages are handled.
C16_BadTextIsIgnored ==
  [][\A s \in SessionIds : \A message \in TextMessages :
       (OnText(s, message)
        /\ (~JsonParse(message).ok \/ JsonParse(message).command # "stopStreaming"))
         => /\ UNCHANGED <<sent, streams, opened, recognizeStream, written, timers>>
            /\ readyState'[s] = "OPEN"]_vars

\* The client is open and its stream ready: end() or destroy() would show.
C16_Witness ==
  /\ readyState["s1"] = "OPEN"
  /\ Ready("s1")
  /\ written["s1"] # <<>>
  /\ sent["s1"] = <<>>

\* ----------------------------------------------------------------- C17
\* Every stream the session has opened is half-closed or destroyed.
AllReleased(s) ==
  \A i \in Opened(s) : ~streams[s][i].writable \/ streams[s][i].destroyed

\* C17: once the client has disconnected, every stream the session opened
\* is eventually half-closed or destroyed, given that pending timers and
\* upstream events are delivered.
C17_DisconnectReleasesAllStreams ==
  \A s \in SessionIds : (readyState[s] = "CLOSED") ~> AllReleased(s)

\* ----------------------------------------------------------------- C18
\* The step is the client's disconnect, taken while the handle is a ready
\* stream.
DisconnectWhileStreaming(s) ==
  /\ readyState[s] # "CLOSED" /\ readyState'[s] = "CLOSED"
  /\ Ready(s)

C19_ClientErrorDestroys ==
  [][\A s \in SessionIds :
       OnWsError(s)
         => /\ recognizeStream'[s] = NoStream
            /\ LET h == recognizeStream[s] IN
               IF h # NoStream /\ ~streams[s][h].destroyed
                 THEN /\ streams'[s][h].destroyed
                      /\ streams'[s][h].ends = streams[s][h].ends
                      /\ streams'[s][h].writable = streams[s][h].writable
                      /\ \A i \in StreamIds \ {h} : streams'[s][i] = streams[s][i]
                 ELSE streams'[s] = streams[s]]_vars

\* After a client-connection error on a streaming session: stream 1 is
\* destroyed, was never ended, and the handle is absent.
C19_Witness ==
  /\ readyState["s1"] = "CLOSING"
  /\ recognizeStream["s1"] = NoStream
  /\ written["s1"] # <<>>
  /\ streams["s1"][1].destroyed /\ ~streams["s1"][1].closed
  /\ streams["s1"][1].ends = 0 /\ streams["s1"][1].writable

\* ----------------------------------------------------------------- C20
WellFormed(f) == f.len % BYTES_PER_SAMPLE = 0

\* C20: the frame that triggers stream creation is not written when it is
\* received but queued once; when its timer fires the frame leaves the
\* queue and, if it is a well-formed frame, is written if the handle is
\* then present, not destroyed and writable, and is dropped otherwise; no
\* frame is queued at any other time, and a write is only ever made for the
\* frame being received or for the frame whose timer fires.
C20_DeferredFrameTriedOnce ==
  [][\A s \in SessionIds :
       /\ (AudioStep(s) /\ recognizeStream[s] = NoStream)
            => /\ written'[s] = written[s]
               /\ Len(timers'[s]) = Len(timers[s]) + 1
               /\ SubSeq(timers'[s], 1, Len(timers[s])) = timers[s]
               /\ timers'[s][Len(timers'[s])].frame.id = received'[s]
       /\ OnTimer(s)
            => /\ timers'[s] = Tail(timers[s])
               /\ LET f == Head(timers[s]).frame IN
                  IF Ready(s) /\ WellFormed(f)
                    THEN /\ Len(written'[s]) = Len(written[s]) + 1
                         /\ SubSeq(written'[s], 1, Len(written[s])) = written[s]
                         /\ LastWrite(s).frame = f.id
                         /\ LastWrite(s).stream = recognizeStream[s]
                    ELSE written'[s] = written[s]
       /\ timers'[s] # timers[s]
            => \/ AudioStep(s) /\ recognizeStream[s] = NoStream
               \/ OnTimer(s)
       /\ written'[s] # written[s]
            => \/ AudioStep(s) /\ LastWrite(s).frame = received'[s]
               \/ OnTimer(s) /\ LastWrite(s).frame = Head(timers[s]).frame.id]_vars

\* Frame 1 opened stream 1 and was deferred; frame 2 was written at once and
\* frame 1 when its timer fired.
C20_Witness ==
  /\ timers["s1"] = <<>>
  /\ Len(written["s1"]) = 2
  /\ written["s1"][1].frame = 2 /\ written["s1"][2].frame = 1
  /\ written["s1"][1].stream = 1 /\ written["s1"][2].stream = 1

\* ----------------------------------------------------------------- C21
\* The stream the timer at the head of the queue was started with, when the
\* creation it followed succeeded.
TimerStream(s) == Head(timers[s]).streamsBefore

\* C21: the error handler and the close handler of a stream that is no
\* longer the session's handle leave the handle and every other stream as
\* they are, and the timer started with a stream that is no longer the
\* handle writes nothing.
C21_CallbacksActOnOwnStream ==
  [][\A s \in SessionIds :
       /\ \A i \in StreamIds :
            ((OnStreamError(s, i) \/ OnStreamClose(s, i)) /\ recognizeStream[s] # i)
              => /\ recognizeStream'[s] = recognizeStream[s]
                 /\ \A j \in StreamIds \ {i} : streams'[s][j] = streams[s][j]
       /\ (OnTimer(s) /\ ~Head(timers[s]).failed
             /\ recognizeStream[s] # TimerStream(s))
              => written'[s] = written[s]]_vars

\* ----------------------------------------------------------------- C22
\* C22: every write goes to the stream that is the session's handle when
\* the write is made, and that stream has not been ended, destroyed or
\* closed.
C22_NoWriteToTornDownStream ==
  [][\A s \in SessionIds :
       written'[s] # written[s]
         => /\ Len(written'[s]) = Len(written[s]) + 1
            /\ recognizeStream[s] # NoStream
            /\ LastWrite(s).stream = recognizeStream[s]
            /\ LET st == streams[s][recognizeStream[s]] IN
               /\ st.ends = 0 /\ st.writable
               /\ ~st.destroyed
               /\ ~st.closed]_vars

\* Stream 1 has been torn down and a frame has been written to stream 2.
C22_Witness ==
  /\ streams["s1"][1].closed
  /\ \E k \in 1..Len(written["s1"]) : written["s1"][k].stream = 2

\* ----------------------------------------------------------------- C23
\* C23: a well-formed frame received while the handle is present, not
\* destroyed and writable is written in the step that receives it, once,
\* to the handle, with one 16-bit sample for each of its float samples, and
\* no timer is queued for it.
C23_ReadyFrameWrittenAtOnce ==
  [][\A s \in SessionIds : \A len \in env.lens, samples \in env.audio :
       LET f == AudioFrame(received[s] + 1, len, samples) IN
       (OnAudio(s, f, FALSE) /\ Len(samples) = len \div BYTES_PER_SAMPLE
        /\ Ready(s) /\ WellFormed(f))
         => /\ Len(written'[s]) = Len(written[s]) + 1
            /\ SubSeq(written'[s], 1, Len(written[s])) = written[s]
            /\ LastWrite(s).frame = f.id
            /\ LastWrite(s).stream = recognizeStream[s]
            /\ LastWrite(s).input = samples
            /\ Len(LastWrite(s).data) = Len(samples)
            /\ timers'[s] = timers[s]]_vars

\* Frame 2 has been written while the timer of frame 1 is still pending.
C23_Witness ==
  /\ timers["s1"] # <<>> /\ Head(timers["s1"]).frame.id = 1
  /\ Len(written["s1"]) = 1
  /\ written["s1"][1].frame = 2 /\ written["s1"][1].stream = 1

\* ----------------------------------------------------------------- C24
\* C24: a step creates a stream only if it is the handling of a binary
\* frame received while the handle is absent, and then it creates one
\* stream, which becomes the handle; every other step (command, timer,
\* upstream event, client close or error) leaves the set of streams the
\* session has opened as it is.
C24_StreamCreatedOnlyOnAudio ==
  [][\A s \in SessionIds :
       opened'[s] # opened[s]
         => /\ AudioStep(s)
            /\ recognizeStream[s] = NoStream
            /\ opened'[s] = opened[s] + 1
            /\ recognizeStream'[s] = opened'[s]
            /\ streams'[s][opened'[s]] = NewStream]_vars

\* Stream 1 has failed and the client was told; the next frame has opened
\* stream 2.
C24_Witness ==
  /\ \E k \in 1..Len(sent["s1"]) : sent["s1"][k] = ErrorMsg(1)
  /\ opened["s1"] = 2
  /\ recognizeStream["s1"] = 2

\* ----------------------------------------------------------------- C25
\* The handle is a stream that a stopStreaming has half-closed and that is
\* not torn down yet.
HandleHalfClosed(s) ==
  recognizeStream[s] # NoStream /\ HalfClosed(s, recognizeStream[s])

\* C25: once a stopStreaming has half-closed the handle's stream, the
\* session eventually has no handle, given that the stream emits its
\* 'close' or 'error'; and as long as the client stays connected and that
\* stream has emitted neither, the handle stays that stream, non-writable.
C25_StopLeadsToNoHandle ==
  /\ \A s \in SessionIds :
       HandleHalfClosed(s) ~> (recognizeStream[s] = NoStream)
  /\ [][\A s \in SessionIds :
          (/\ HandleHalfClosed(s)
           /\ readyState[s] = "OPEN" /\ readyState'[s] = "OPEN"
           /\ ~OnStreamClose(s, recognizeStream[s])
           /\ ~OnStreamError(s, recognizeStream[s]))
            => /\ recognizeStream'[s] = recognizeStream[s]
               /\ ~streams'[s][recognizeStream[s]].writable]_vars

\* ----------------------------------------------------------------- C26
\* C26: a step sends a message to a client only if the client's connection
\* is OPEN when the step is taken, and what was sent is never changed.
C26_SendsOnlyToOpenClient ==
  [][\A s \in SessionIds :
       sent'[s] # sent[s]
         => /\ readyState[s] = "OPEN"
            /\ Len(sent'[s]) = Len(sent[s]) + 1
            /\ SubSeq(sent'[s], 1, Len(sent[s])) = sent[s]]_vars

\* A stream's 'error' handler has run for a client that was no longer
\* open: nothing was sent.
C26_Witness ==
  /\ readyState["s1"] # "OPEN"
  /\ sent["s1"] = <<>>
  /\ \E i \in Opened("s1") : streams["s1"][i].err = "emitted"

\* ----------------------------------------------------------------- C27
\* C27: the writes a session has made upstream name frames it received, and
\* no frame is named by two writes, whatever the order of later frames,
\* timers, stream errors and new streams.
C27_FrameWrittenAtMostOnce ==
  \A s \in SessionIds :
    /\ \A i \in 1..Len(written[s]) : written[s][i].frame \in 1..received[s]
    /\ \A i, j \in 1..Len(written[s]) :
         written[s][i].frame = written[s][j].frame => i = j

\* Two frames, each of which started a stream of its own, have both been
\* written by their timers.
C27_Witness ==
  /\ opened["s1"] = 2
  /\ timers["s1"] = <<>>
  /\ \E i, j \in 1..Len(written["s1"]) :
       written["s1"][i].frame = 1 /\ written["s1"][j].frame = 2

\* ----------------------------------------------------------------- C28
\* C28: end() is called at most once on a stream: a stopStreaming or a
\* disconnect that finds the handle on a half-closed stream leaves the
\* count of end() calls at one, and no step raises the count of a stream
\* that was ended before.
C28_EndSignaledAtMostOnce ==
  [][\A s \in SessionIds :
       /\ (HandleHalfClosed(s) /\ (OnText(s, StopText) \/ OnWsClose(s)))
            => streams'[s][recognizeStream[s]].ends = 1
       /\ \A i \in StreamIds :
            /\ streams[s][i].ends <= 1
            /\ streams'[s][i].ends > streams[s][i].ends
                 => streams[s][i].ends = 0 /\ streams[s][i].writable]_vars

\* The client is gone and its stream, half-closed by one end() call, is
\* still live; the second of the two frames received was refused by it.
C28_Witness ==
  /\ readyState["s1"] = "CLOSED"
  /\ recognizeStream["s1"] = NoStream
  /\ opened["s1"] = 1
  /\ HalfClosed("s1", 1)
  /\ streams["s1"][1].ends = 1
  /\ received["s1"] = 2
  /\ Len(written["s1"]) = 1 /\ written["s1"][1].frame = 1

\* ----------------------------------------------------------------- C29
\* The session's handle refers to a stream that is destroyed and has not
\* emitted 'close' yet.
HandleDestroyed(s) ==
  /\ recognizeStream[s] # NoStream
  /\ streams[s][recognizeStream[s]].destroyed
  /\ ~streams[s][recognizeStream[s]].closed

\* C29: a frame received while the handle refers to a destroyed stream is
\* discarded: nothing is written, no stream is opened, no timer is queued,
\* and the handle, the streams and the client's messages stay as they are.
C29_FrameOnDestroyedHandleDiscarded ==
  [][\A s \in SessionIds :
       (AudioStep(s) /\ HandleDestroyed(s))
         => /\ written'[s] = written[s]
            /\ opened'[s] = opened[s]
            /\ timers'[s] = timers[s]
            /\ recognizeStream'[s] = recognizeStream[s]
            /\ streams'[s] = streams[s]
            /\ sent'[s] = sent[s]]_vars

\* Both frames have been received and only the first was written; the only
\* stream the session opened is destroyed and still under the handle, and
\* no timer is pending.
C29_Witness ==
  /\ readyState["s1"] = "OPEN"
  /\ HandleDestroyed("s1")
  /\ opened["s1"] = 1
  /\ received["s1"] = 2
  /\ timers["s1"] = <<>>
  /\ Len(written["s1"]) = 1 /\ written["s1"][1].frame = 1

====
